---------------------------- MODULE Spec2Model ----------------------------
(***************************************************************************)
(* Model of the ssl-expiration crate: the library routine                  *)
(* SslExpiration::from_addr (src/src/lib.rs) and the command line driver   *)
(* main (src/src/main.rs) that calls it once per host argument.            *)
(*                                                                         *)
(* The remote peer, the resolver, the TLS library and the clock are the    *)
(* environment: every outcome they can produce is drawn with \E in the     *)
(* step of from_addr that observes it.                                     *)
(***************************************************************************)
EXTENDS Integers, Sequences, FiniteSets, TLC

(***************************************************************************)
(* Bounds of the model.                                                    *)
(***************************************************************************)
\* longest list of host arguments given to the CLI
MaxArgs == 2
\* longest subject-alternative-name extension a certificate carries
MaxSan == 2

(***************************************************************************)
(* 32-bit signed arithmetic (the field `secs: i32`, TimeDiff's c_int).     *)
(***************************************************************************)
MaxI32 == 2147483647
MinI32 == -MaxI32 - 1

\* Rust's `/` on integers: the quotient truncated toward zero (b > 0).
TruncDiv(a, b) ==
    IF a >= 0 THEN a \div b
    ELSE IF a % b = 0 THEN a \div b ELSE (a \div b) + 1

\* a + b overflows i32
AddOverflows(a, b) ==
    \/ b > 0 /\ a > MaxI32 - b
    \/ b < 0 /\ a < MinI32 - b

\* a + b reduced modulo 2^32 into the i32 range (two's complement wrap)
WrapAdd(a, b) ==
    IF b > 0 /\ a > MaxI32 - b THEN (a - MaxI32 - 1) + (b - MaxI32 - 1)
    ELSE IF b < 0 /\ a < MinI32 - b THEN (a + MaxI32 + 1) + (b + MaxI32 + 1)
    ELSE a + b

\* a * k overflows i32 (k a small positive literal)
MulOverflows(a, k) ==
    \/ a > MaxI32 \div k
    \/ a < TruncDiv(MinI32, k)

\* a * k reduced modulo 2^32 into the i32 range, computed on 16-bit halves
\* so that no intermediate value leaves the 32-bit range
WrapMul(a, k) ==
    LET hi  == a \div 65536
        lo  == a % 65536
        h   == (hi * k) % 65536
        hs  == IF h >= 32768 THEN h - 65536 ELSE h
    IN  WrapAdd(hs * 65536, lo * k)

\* bitwise NOT of an i32 (Rust's `!` on a signed integer)
Not32(x) == -x - 1


(***************************************************************************)
(* Values the environment supplies.                                        *)
(***************************************************************************)
\* host strings that may appear on the command line
Hosts == {"a.example", "b.example"}

SecsPerDay == 24 * 60 * 60

\* A point in time: day number and second of that day, the decomposition
\* on which ASN1_TIME_diff computes.
Time(d, s) == [day |-> d, sec |-> s]

\* the instants Asn1Time::days_from_now(0) may return
NowSet == {Time(20000, 0), Time(20000, 43200)}

\* the notAfter instants a peer certificate may carry: around `now`, around
\* the 7-day threshold, at the ends of the i32 range of seconds (24855 days
\* and 11647/11648 seconds), and decades beyond it up to year 9999
NotAfterSet ==
    { Time(20000, 0), Time(20000, 43199), Time(19999, 43200),
      Time(19995, 0), Time(20007, 86399), Time(20008, 43200), Time(20400, 0),
      Time(20000 - 24855, 43200 - 11648), Time(20000 + 24855, 43200 + 11647),
      Time(20000 - 25000, 0), Time(20000 + 25000, 0), Time(2932896, 86399) }

\* entries of a subjectAltName extension: a GeneralName with its type
SanEntries ==
    { [type |-> "DNS", value |-> "a.example"],
      [type |-> "DNS", value |-> "www.a.example"],
      [type |-> "IP",  value |-> "192.0.2.1"] }

RECURSIVE SeqsUpTo(_, _)
\* all sequences over S of length at most n
SeqsUpTo(S, n) ==
    IF n = 0 THEN {<<>>}
    ELSE LET shorter == SeqsUpTo(S, n - 1)
         IN  shorter \cup {Append(q, e) : q \in shorter, e \in S}

\* the peer certificates a handshake may yield: subject_alt_names() is
\* None or Some(stack), not_after() an instant, public_key() Ok or Err
Certs ==
    { c \in [has_san : BOOLEAN, san : SeqsUpTo(SanEntries, MaxSan),
             not_after : NotAfterSet, pubkey_ok : BOOLEAN] :
        c.has_san \/ c.san = <<>> }

NoCert == [has_san |-> FALSE, san |-> <<>>, not_after |-> Time(0, 0),
           pubkey_ok |-> FALSE]

\* ways TcpStream::connect fails
ConnectFailures == {"resolution failed", "connection refused"}

\* ways Ssl::connect fails: the variants of openssl's HandshakeError
HandshakeFailures == {"SetupFailure", "Failure", "Interrupted"}

(***************************************************************************)
(* Pure functions of the library.                                          *)
(***************************************************************************)
\* from_domain_name: format!("{}:443", domain)
FromDomainName(domain) == [host |-> domain, port |-> 443]

\* GeneralName::dnsname(): Some(value) for a dNSName entry, None otherwise
IsDnsName(n) == n.type = "DNS"

\* the collection without the filter on the entry type
CollectAllNames(names) == [i \in 1..Len(names) |-> names[i].value]

RECURSIVE FilterMapDns(_)
\* names.iter().filter_map(|n| n.dnsname()).map(|n| n.to_string()).collect()
FilterMapDns(names) ==
    IF names = <<>> THEN <<>>
    ELSE IF IsDnsName(Head(names))
         THEN <<Head(names).value>> \o FilterMapDns(Tail(names))
         ELSE FilterMapDns(Tail(names))

\* Asn1Time::diff (ASN1_TIME_diff): the difference to - from as days and
\* seconds, both of the sign of the difference
Diff(from, to) ==
    LET d == to.day - from.day
        s == to.sec - from.sec
    IN  IF d > 0 /\ s < 0 THEN [days |-> d - 1, secs |-> s + SecsPerDay]
        ELSE IF d < 0 /\ s > 0 THEN [days |-> d + 1, secs |-> s - SecsPerDay]
        ELSE [days |-> d, secs |-> s]

\* from_now.days * 24 * 60 * 60 + from_now.secs leaves the i32 range at
\* one of its four operations
SecsOverflows(td) ==
    \/ MulOverflows(td.days, 24)
    \/ MulOverflows(WrapMul(td.days, 24), 60)
    \/ MulOverflows(WrapMul(WrapMul(td.days, 24), 60), 60)
    \/ AddOverflows(WrapMul(WrapMul(WrapMul(td.days, 24), 60), 60), td.secs)

\* from_now.days * 24 * 60 * 60 + from_now.secs in wrapping i32 arithmetic
SecsWrapped(td) ==
    WrapAdd(WrapMul(WrapMul(WrapMul(td.days, 24), 60), 60), td.secs)

\* SslExpiration::days with flooring division in place of truncation
DaysFloor(secs) == ((secs \div 60) \div 60) \div 24

\* SslExpiration::days
Days(secs) == TruncDiv(TruncDiv(TruncDiv(secs, 60), 60), 24)

\* SslExpiration::is_expired
IsExpired(secs) == secs < 0

\* the conversion of a connect failure into HandshakeError
IoErrorAsHandshake(e) == [kind |-> "HandshakeError", msg |-> e]

\* `?` on TcpStream::connect: From<io::Error>, the foreign link IoError
IoError(e) == [kind |-> "IoError", msg |-> e]

\* `?` on an openssl call: From<ErrorStack>, foreign link OpenSslErrorStack
OpenSslErrorStack(e) == [kind |-> "OpenSslErrorStack", msg |-> e]

\* std::error::Error::description of openssl's HandshakeError
HandshakeDescription(e) ==
    CASE e = "SetupFailure" -> "stream setup failed"
      [] e = "Failure"      -> "the handshake failed"
      [] e = "Interrupted"  -> "the handshake was interrupted"

\* the handshake failure converted like any other openssl error
HandshakeAsErrorStack(e) == OpenSslErrorStack(e)

\* map_err(|e| ErrorKind::HandshakeError(e.description().to_owned()))
HandshakeError(e) ==
    [kind |-> "HandshakeError", msg |-> HandshakeDescription(e)]

\* ok_or("Certificate not found")?: From<&str>, error_chain's Msg kind
CertificateNotFound == [kind |-> "Msg", msg |-> "Certificate not found"]

\* Ok(SslExpiration { secs, alt_names })
Ok(secs, names) == [kind |-> "Ok", secs |-> secs, alt_names |-> names]

NoResult == [kind |-> "None"]
Panicked == [kind |-> "Panic"]

IsErr(r) == r.kind \in {"IoError", "OpenSslErrorStack", "HandshakeError", "Msg"}


(***************************************************************************)
(* State.                                                                  *)
(***************************************************************************)
VARIABLES
    args,             \* main: env::args().skip(1)
    idx,              \* main: number of arguments the for loop has taken
    exit_code,        \* main: let mut exit_code
    status,           \* exit status of the process, -1 while it runs
    last_msg,         \* main: the status line printed in this iteration
    checked,          \* history: the domains from_domain_name was called on
    alerted,          \* history: a result so far was expired or due in 7 days
    overflow_checks,  \* build profile: arithmetic overflow panics or wraps
    pc,               \* position in main / from_addr
    addr,             \* from_addr: addr
    steps,            \* history: the steps the current check has executed
    cert,             \* from_addr: cert
    alt_names,        \* from_addr: alt_names
    now,              \* from_addr: now
    from_now,         \* from_addr: from_now
    result,           \* value from_addr returned to main
    failure           \* history: the step that failed and its cause

mainVars == <<args, idx, exit_code, status, last_msg, checked, alerted,
              overflow_checks>>
localVars == <<addr, cert, alt_names, now, from_now>>
vars == <<args, idx, exit_code, status, last_msg, checked, alerted,
          overflow_checks, pc, addr, steps, cert, alt_names, now, from_now,
          result, failure>>

NoMsg == [text |-> "none"]
NoFailure == [step |-> "none", cause |-> "none"]
NoAddr == [host |-> "none", port |-> 0]
NoDiff == [days |-> 0, secs |-> 0]

Init ==
    /\ args \in SeqsUpTo(Hosts, MaxArgs)
    /\ overflow_checks \in BOOLEAN
    /\ idx = 0
    /\ exit_code = 0
    /\ status = -1
    /\ last_msg = NoMsg
    /\ checked = <<>>
    /\ alerted = FALSE
    /\ pc = "main_loop"
    /\ addr = NoAddr
    /\ steps = <<>>
    /\ cert = NoCert
    /\ alt_names = <<>>
    /\ now = Time(0, 0)
    /\ from_now = NoDiff
    /\ result = NoResult
    /\ failure = NoFailure

(***************************************************************************)
(* from_addr, one action per fallible call, in program order.              *)
(***************************************************************************)
\* the step at pc is executed
At(step) == pc = step /\ steps' = Append(steps, step)

\* `?` returns Err(err) to the caller
Return(step, err, why) ==
    /\ result' = err
    /\ failure' = [step |-> step, cause |-> why]
    /\ pc' = "match"

\* the step succeeded, control falls through to the next statement
Continue(next) ==
    /\ pc' = next
    /\ UNCHANGED <<result, failure>>

\* a panic unwinds out of main: the process ends with status 101
Panic(step, why) ==
    /\ result' = Panicked
    /\ failure' = [step |-> step, cause |-> why]
    /\ pc' = "panicked"
    /\ status' = 101

\* SslContext::builder(SslMethod::tls())?, set_verify, build
CtxBuilder ==
    /\ At("ctx_builder")
    /\ \/ Continue("ssl_new")
       \/ Return("ctx_builder", OpenSslErrorStack("SslContext::builder"),
                 "SslContext::builder")
    /\ UNCHANGED <<mainVars, localVars>>

\* Ssl::new(&context)?
SslNew ==
    /\ At("ssl_new")
    /\ \/ Continue("connect")
       \/ Return("ssl_new", OpenSslErrorStack("Ssl::new"), "Ssl::new")
    /\ UNCHANGED <<mainVars, localVars>>

\* a connect that is attempted again after it failed
ConnectRetrying ==
    /\ At("connect")
    /\ \/ Continue("handshake")
       \/ \E e \in ConnectFailures :
             /\ pc' = "connect"
             /\ failure' = [step |-> "connect", cause |-> e]
             /\ UNCHANGED result
    /\ UNCHANGED <<mainVars, localVars>>

\* TcpStream::connect(addr)?
Connect ==
    /\ At("connect")
    /\ \/ Continue("handshake")
       \/ \E e \in ConnectFailures : Return("connect", IoError(e), e)
    /\ UNCHANGED <<mainVars, localVars>>

\* connector.connect(stream).map_err(..)?
Handshake ==
    /\ At("handshake")
    /\ \/ Continue("peer_certificate")
       \/ \E e \in HandshakeFailures :
             Return("handshake", HandshakeError(e), e)
    /\ UNCHANGED <<mainVars, localVars>>

\* stream.ssl().peer_certificate().ok_or("Certificate not found")?
PeerCertificate ==
    /\ At("peer_certificate")
    /\ \/ /\ \E c \in Certs : cert' = c
          /\ Continue("subject_alt_names")
       \/ /\ Return("peer_certificate", CertificateNotFound, "no certificate")
          /\ UNCHANGED cert
    /\ UNCHANGED <<mainVars, addr, alt_names, now, from_now>>

\* if let Some(names) = cert.subject_alt_names() { alt_names = ...collect() }
SubjectAltNames ==
    /\ At("subject_alt_names")
    /\ alt_names' = IF cert.has_san THEN FilterMapDns(cert.san) ELSE <<>>
    /\ Continue("days_from_now")
    /\ UNCHANGED <<mainVars, addr, cert, now, from_now>>

\* Asn1Time::days_from_now(0)?
DaysFromNow ==
    /\ At("days_from_now")
    /\ \/ /\ \E t \in NowSet : now' = t
          /\ Continue("diff")
       \/ /\ Return("days_from_now", OpenSslErrorStack("days_from_now"),
                    "days_from_now")
          /\ UNCHANGED now
    /\ UNCHANGED <<mainVars, addr, cert, alt_names, from_now>>

\* now.diff(cert.not_after())?
DiffNotAfter ==
    /\ At("diff")
    /\ \/ /\ from_now' = Diff(now, cert.not_after)
          /\ Continue("public_key")
       \/ /\ Return("diff", OpenSslErrorStack("ASN1_TIME_diff"),
                    "ASN1_TIME_diff")
          /\ UNCHANGED from_now
    /\ UNCHANGED <<mainVars, addr, cert, alt_names, now>>

\* cert.public_key().unwrap()
PublicKey ==
    /\ At("public_key")
    /\ \/ /\ cert.pubkey_ok
          /\ Continue("verify")
          /\ UNCHANGED mainVars
       \/ /\ ~cert.pubkey_ok
          /\ Panic("public_key", "unwrap on Err")
          /\ UNCHANGED <<args, idx, exit_code, last_msg, checked, alerted,
                         overflow_checks>>
    /\ UNCHANGED localVars

\* let verify = cert.verify(..); println!("Verify: {:?}", verify)
Verify ==
    /\ At("verify")
    /\ \E verify \in {"Ok(true)", "Ok(false)", "Err"} : Continue("construct")
    /\ UNCHANGED <<mainVars, localVars>>

\* Ok(SslExpiration { secs: from_now.days * 24 * 60 * 60 + from_now.secs,
\*                    alt_names })
Construct ==
    /\ At("construct")
    /\ \/ /\ ~(overflow_checks /\ SecsOverflows(from_now))
          /\ result' = Ok(SecsWrapped(from_now), alt_names)
          /\ pc' = "match"
          /\ UNCHANGED <<failure, mainVars>>
       \/ /\ overflow_checks /\ SecsOverflows(from_now)
          /\ Panic("construct", "arithmetic overflow")
          /\ UNCHANGED <<args, idx, exit_code, last_msg, checked, alerted,
                         overflow_checks>>
    /\ UNCHANGED localVars

(***************************************************************************)
(* main: the loop over the host arguments.                                 *)
(***************************************************************************)
\* the alert threshold in days of `expiration.days() <= 7`
SoonDays == 7

\* e.description() of an error_chain error
Description(e) == IF e.kind = "HandshakeError" THEN "HandshakeError" ELSE e.msg

\* for domain in env::args().skip(1): the next argument is taken and
\* SslExpiration::from_domain_name(&domain) is entered
MainCall ==
    /\ pc = "main_loop"
    /\ idx < Len(args)
    /\ idx' = idx + 1
    /\ checked' = Append(checked, args[idx + 1])
    /\ addr' = FromDomainName(args[idx + 1])
    /\ steps' = <<>>
    /\ cert' = NoCert
    /\ alt_names' = <<>>
    /\ now' = Time(0, 0)
    /\ from_now' = NoDiff
    /\ result' = NoResult
    /\ failure' = NoFailure
    /\ last_msg' = NoMsg
    /\ pc' = "ctx_builder"
    /\ UNCHANGED <<args, exit_code, status, alerted, overflow_checks>>

\* the body of `match ... { Ok(expiration) => .., Err(e) => .. }`
MainMatch ==
    /\ pc = "match"
    /\ LET domain == args[idx]
           days   == Days(result.secs)
       IN  \/ /\ result.kind = "Ok"
              /\ IsExpired(result.secs)
              /\ last_msg' = [text |-> "expired", stream |-> "stderr",
                              domain |-> domain, n |-> Not32(days)]
              /\ exit_code' = 1
           \/ /\ result.kind = "Ok"
              /\ ~IsExpired(result.secs)
              /\ Days(result.secs) <= SoonDays
              /\ last_msg' = [text |-> "soon", stream |-> "stdout",
                              domain |-> domain, n |-> days]
              /\ exit_code' = 1
           \/ /\ result.kind = "Ok"
              /\ ~IsExpired(result.secs)
              /\ ~(Days(result.secs) <= SoonDays)
              /\ last_msg' = [text |-> "healthy", stream |-> "stdout",
                              domain |-> domain, n |-> days]
              /\ UNCHANGED exit_code
           \/ /\ IsErr(result)
              /\ last_msg' = [text |-> "error", stream |-> "stderr",
                              domain |-> domain,
                              description |-> Description(result)]
              /\ UNCHANGED exit_code
    /\ alerted' = (alerted \/ (result.kind = "Ok" /\
                     (result.secs < 0 \/ Days(result.secs) <= SoonDays)))
    /\ pc' = "main_loop"
    /\ UNCHANGED <<args, idx, status, checked, overflow_checks, steps,
                   localVars, result, failure>>

\* exit(exit_code) after the loop
MainExit ==
    /\ pc = "main_loop"
    /\ idx = Len(args)
    /\ pc' = "exited"
    /\ status' = exit_code
    /\ UNCHANGED <<args, idx, exit_code, last_msg, checked, alerted,
                   overflow_checks, steps, localVars, result, failure>>

Next ==
    \/ MainCall
    \/ CtxBuilder
    \/ SslNew
    \/ Connect
    \/ Handshake
    \/ PeerCertificate
    \/ SubjectAltNames
    \/ DaysFromNow
    \/ DiffNotAfter
    \/ PublicKey
    \/ Verify
    \/ Construct
    \/ MainMatch
    \/ MainExit

Spec == Init /\ [][Next]_vars

(***************************************************************************)
(* Properties.                                                             *)
(***************************************************************************)
IsPrefix(p, q) == Len(p) <= Len(q) /\ SubSeq(q, 1, Len(p)) = p

ReturnedOk == result.kind = "Ok"

\* t1 is strictly before t2
Before(t1, t2) == t1.day < t2.day \/ (t1.day = t2.day /\ t1.sec < t2.sec)

\* the process has ended, by exit() or by a panic
Terminated == status # -1

\* C1: for every successful check, a notAfter strictly before the sampled
\* `now` gives is_expired() and secs() < 0, and a notAfter at or after
\* `now` gives not is_expired(), for every notAfter a certificate carries.
C1_ExpiredIffPast ==
    ReturnedOk =>
        /\ Before(cert.not_after, now) =>
               IsExpired(result.secs) /\ result.secs < 0
        /\ ~Before(cert.not_after, now) => ~IsExpired(result.secs)

C3_ExpiredDaysNegative ==
    (ReturnedOk /\ IsExpired(result.secs)) => Days(result.secs) < 0

\* C4: when the connection attempt fails (resolution failure or refusal),
\* the check returns the I/O error kind, built from that failure, and no
\* HandshakeError, crypto-library error or certificate-not-found error.
C4_ConnectFailureIsIoError ==
    failure.step = "connect" =>
        /\ result.kind = "IoError"
        /\ result.msg = failure.cause
        /\ failure.cause \in ConnectFailures

\* a refused connection has been returned to main
C4_Witness ==
    /\ failure.step = "connect"
    /\ failure.cause = "connection refused"
    /\ result.kind = "IoError"
    /\ pc = "match"

\* C5: when the transport is connected and the handshake fails, the check
\* returns HandshakeError with the description of the failed attempt; no
\* connect failure is reported as HandshakeError, no handshake failure as
\* the I/O or crypto-library kind.
C5_HandshakeFailureIsHandshakeError ==
    /\ failure.step = "handshake" =>
          /\ result.kind = "HandshakeError"
          /\ result.kind \notin {"IoError", "OpenSslErrorStack"}
          /\ failure.cause = "SetupFailure" =>
                 result.msg = "stream setup failed"
          /\ failure.cause = "Failure" => result.msg = "the handshake failed"
          /\ failure.cause = "Interrupted" =>
                 result.msg = "the handshake was interrupted"
          /\ \E i \in 1..Len(steps) : steps[i] = "connect"
    /\ failure.step = "connect" => result.kind # "HandshakeError"

\* a handshake rejected after a successful connect has been returned
C5_Witness ==
    /\ failure.step = "handshake"
    /\ failure.cause = "Failure"
    /\ result.kind = "HandshakeError"
    /\ steps = <<"ctx_builder", "ssl_new", "connect", "handshake">>

\* C6: no check terminates abnormally, whatever the peer and its
\* certificate are: from_addr returns Ok or a typed Err.
C6_NeverPanics == pc # "panicked" /\ result.kind # "Panic"

\* the DNS-type entries of an extension, in the extension's order
C7_DnsValues(san) ==
    LET dns == SelectSeq(san, LAMBDA n : n.type = "DNS")
    IN  [i \in 1..Len(dns) |-> dns[i].value]

\* C7: the result's alternative names are exactly the DNS-type entries of
\* the subjectAltName extension, in order; without the extension the list
\* is empty, and extracting the names is never what fails the check.
C7_AltNamesAreDnsEntries ==
    /\ ReturnedOk =>
          result.alt_names = IF cert.has_san THEN C7_DnsValues(cert.san)
                             ELSE <<>>
    /\ failure.step # "subject_alt_names"

\* a check succeeded on a certificate listing an IP entry before a DNS one
C7_Witness ==
    /\ ReturnedOk
    /\ cert.has_san
    /\ Len(cert.san) = 2
    /\ cert.san[1].type = "IP"
    /\ cert.san[2].type = "DNS"
    /\ result.alt_names = <<cert.san[2].value>>

\* C8: the CLI checks every host exactly once in argument order, whatever
\* the per-host outcome; the exit status is nonzero if some result was
\* expired or due within 7 days, is never reset, and errors leave it alone.
C8_EveryHostCheckedAndStatus ==
    /\ IsPrefix(checked, args)
    /\ Terminated => checked = args
    /\ alerted => exit_code # 0
    /\ ~alerted => exit_code = 0
    /\ (Terminated /\ alerted) => status # 0

\* the order of the state machine of the claim: transport first
C9_TransportFirst ==
    << "connect", "ctx_builder", "ssl_new", "handshake", "peer_certificate",
       "subject_alt_names", "days_from_now", "diff", "public_key", "verify",
       "construct" >>

\* the order in which the code takes the steps: TLS context and session
\* are built before the transport is connected
C9_ContextFirst ==
    << "ctx_builder", "ssl_new", "connect", "handshake", "peer_certificate",
       "subject_alt_names", "days_from_now", "diff", "public_key", "verify",
       "construct" >>

C9_StepNames == {C9_ContextFirst[i] : i \in 1..Len(C9_ContextFirst)}

\* a failed step is the last one executed, and the check is over
C9_FailureIsTerminal ==
    /\ failure.step # "none" =>
          /\ steps # <<>>
          /\ steps[Len(steps)] = failure.step
          /\ pc \notin C9_StepNames
    /\ result.kind # "None" => pc \notin C9_StepNames
    /\ pc \in C9_StepNames =>
          /\ Len(steps) < Len(C9_ContextFirst)
          /\ pc = C9_ContextFirst[Len(steps) + 1]

C10_ExpiredDaysAgo ==
    last_msg.text = "expired" =>
        /\ last_msg.n >= 0
        /\ last_msg.n = -Days(result.secs)

=============================================================================
